---- MODULE Spec2Model ----
(***************************************************************************)
(* Model of src/main.py: the poll / dedupe / reply loop of the auto-reply  *)
(* bot (main_loop), the seen-state file (load_seen, write_seen), the       *)
(* thread lister (get_threads_safe) and the reply dispatcher (send_reply). *)
(*                                                                         *)
(* The provider (instagrapi Client) and the file system are the            *)
(* environment: their answers are inputs drawn with \E.  The process can   *)
(* be killed at any point and started again (Crash).                       *)
(***************************************************************************)
EXTENDS Integers, Sequences, FiniteSets, TLC

\* ---------------------------------------------------------------- bounds
NumThreads      == 2    \* raw thread ids are 1..NumThreads
MaxMsgId        == 2    \* raw message ids are 1..MaxMsgId
MaxParticipants == 3    \* a thread has 2..MaxParticipants users
MaxInbox        == 2    \* entries in one provider listing
MaxCrashes      == 1    \* process kills explored
MaxWriteFails   == 1    \* failing write_seen calls explored

\* ------------------------------------------------------- values and types
\* Python's None, as the value of last_msg_id
None == "None"

\* "tid not in seen": the value a lookup ghost takes when the key is absent
NoEntry == "absent"

\* str(x) of an integer identifier (lines 89, 90, 112, 113)
Str(i) == ToString(i)

\* REPLY_TEXT (line 11), the default
REPLY_TEXT == "Hello! Thanks for the message."

TidStrs == {Str(i) : i \in 1..NumThreads}
MidStrs == {Str(i) : i \in 1..MaxMsgId}

\* the empty dict {}
EmptyMap == [x \in {} |-> None]

\* a Python dict value with str keys and str values
Dict(m) == [type |-> "dict", map |-> m]

\* any JSON value that is not an object (a list, a string, a number, null)
NonDict == [type |-> "other", map |-> EmptyMap]

\* SEEN_FILE does not exist
FileMissing == [type |-> "missing", map |-> EmptyMap]

\* SEEN_FILE exists and json.load raises on it (truncated, not JSON)
FileCorrupt == [type |-> "corrupt", map |-> EmptyMap]

\* contents SEEN_FILE can have when the process first starts; the other
\* dicts are left there by earlier runs of the process
FileStates == {FileMissing, FileCorrupt, NonDict, Dict(EmptyMap)}

\* d[k] = v
Put(m, k, v) == [x \in (DOMAIN m) \cup {k} |-> IF x = k THEN v ELSE m[x]]

\* the local variables tid, last, participants before the first record
NoRecord == [thread_id |-> "", last_msg_id |-> None, participants |-> 0]

\* ---------------------------------------------------------------- seen file
\* load_seen(): the parsed content, {} if the file is missing or unparseable
load_seen(f) ==
    IF f.type \in {"missing", "corrupt"} THEN Dict(EmptyMap) ELSE f

\* write_seen(seen_dict) under the outcome res of the file system:
\*   "ok"          the file holds json.dump(seen_dict)
\*   "open_failed" open(..., "w") raised: the file is as it was
\*   "dump_failed" open truncated the file, the dump raised: not parseable
\* write_seen_skip is the faulty variant that never writes.
write_seen_skip(f, seen_dict, res) == f

write_seen(f, seen_dict, res) ==
    CASE res = "ok"          -> seen_dict
      [] res = "open_failed" -> f
      [] res = "dump_failed" -> FileCorrupt

WriteResults == {"ok", "open_failed", "dump_failed"}

\* ------------------------------------------------------------- the provider
\* One entry of a provider listing, either shape:
\*   id       the thread's identifier, 0 when none can be determined
\*   msg_id   the "id" of the front (latest) message, 0 when it has none or
\*            there is no message
\*   item_id  the "item_id" of the front message, 0 likewise
\*   users    the number of participants listed
\*   bad      the entry is malformed: normalizing it raises
RawThreads ==
    [id : 0..NumThreads, msg_id : 0..MaxMsgId, item_id : 0..MaxMsgId,
     users : 2..MaxParticipants, bad : {FALSE}]
      \cup {[id |-> 0, msg_id |-> 0, item_id |-> 0, users |-> 0, bad |-> TRUE]}

\* a provider reports a thread at most once in a listing
DistinctIds(s) ==
    \A i, j \in 1..Len(s) : (i # j /\ s[i].id # 0) => s[i].id # s[j].id

Inboxes ==
    {s \in UNION {[1..n -> RawThreads] : n \in 0..MaxInbox} : DistinctIds(s)}

\* how a provider call ends
CallResults == {"ok", "ClientError", "ClientLoginRequired"}

\* ----------------------------------------------------------- get_threads_safe
\* lines 77-92: one thread object of direct_threads().  dictItems: the
\* messages are dicts; otherwise they are objects, and the conditional
\* expression of line 83 yields None for them.
primary_record(t, dictItems) ==
    [thread_id    |-> Str(t.id),
     last_msg_id  |-> IF t.msg_id # 0 /\ dictItems THEN Str(t.msg_id) ELSE None,
     participants |-> t.users]

\* lines 104-115: one thread dict of direct_v2_inbox(); line 108 reads
\* items[0].get("item_id") or items[0].get("id")
fallback_record(t) ==
    [thread_id    |-> Str(t.id),
     last_msg_id  |-> IF t.item_id # 0 THEN Str(t.item_id)
                      ELSE IF t.msg_id # 0 THEN Str(t.msg_id) ELSE None,
     participants |-> t.users]

\* the for loops of lines 76-92 and 103-115 over the entries i..Len(raw):
\* an entry without identifier is dropped, a malformed entry raises and the
\* records appended so far stay in threads_normalized
RECURSIVE normalize_from(_, _, _, _)
normalize_from(raw, i, isPrimary, dictItems) ==
    IF i > Len(raw) THEN [out |-> <<>>, raised |-> FALSE]
    ELSE IF raw[i].bad THEN [out |-> <<>>, raised |-> TRUE]
    ELSE LET rest == normalize_from(raw, i + 1, isPrimary, dictItems)
             rec  == IF isPrimary THEN primary_record(raw[i], dictItems)
                                  ELSE fallback_record(raw[i])
         IN  IF raw[i].id # 0
             THEN [out |-> <<rec>> \o rest.out, raised |-> rest.raised]
             ELSE rest

\* one retrieval path: the call, then the loop over what it returned
retrieve(res, raw, isPrimary, dictItems) ==
    IF res = "ok" THEN normalize_from(raw, 1, isPrimary, dictItems)
    ELSE [out |-> <<>>, raised |-> TRUE]

\* lines 72-121: the primary path; the fallback path when the primary path
\* raised or produced nothing, appending to the same list
get_threads_safe(pRes, dictItems, fRes, raw) ==
    LET p == retrieve(pRes, raw, TRUE, dictItems) IN
    IF ~p.raised /\ p.out # <<>> THEN p.out
    ELSE p.out \o retrieve(fRes, raw, FALSE, FALSE).out

\* the exception that leaves get_threads_safe: both paths are wrapped in
\* "except Exception" (lines 95, 117), which ClientLoginRequired is
get_threads_safe_raises(pRes, fRes) == "none"

\* the fallback path runs: line 94 did not return
fallback_runs(pRes, dictItems, raw) ==
    LET p == retrieve(pRes, raw, TRUE, dictItems) IN p.raised \/ p.out = <<>>

\* the provider raised ClientLoginRequired in a call get_threads_safe made
listing_auth(pRes, dictItems, fRes, raw) ==
    \/ pRes = "ClientLoginRequired"
    \/ fallback_runs(pRes, dictItems, raw) /\ fRes = "ClientLoginRequired"

\* the return statement get_threads_safe leaves by: line 94 ("primary"),
\* line 116 ("fallback"), or line 121 after both paths raised ("failed")
served_by(pRes, dictItems, fRes, raw) ==
    IF ~fallback_runs(pRes, dictItems, raw) THEN "primary"
    ELSE IF retrieve(fRes, raw, FALSE, FALSE).raised THEN "failed"
    ELSE "fallback"

\* what one call of get_threads_safe can come to, over every answer of the
\* provider: the exception leaving it, the list returned, and whether the
\* provider raised ClientLoginRequired
Listings ==
    {[exc     |-> get_threads_safe_raises(pRes, fRes),
      threads |-> get_threads_safe(pRes, dictItems, fRes, raw),
      auth    |-> listing_auth(pRes, dictItems, fRes, raw)] :
        pRes \in CallResults, fRes \in CallResults,
        dictItems \in BOOLEAN, raw \in Inboxes}

\* ------------------------------------------------------------------ send_reply
\* the exception that leaves send_reply: "except Exception" (line 129)
\* catches every outcome of direct_send
send_reply_raises(res) == "none"

\* the call send_reply makes: direct_send(text, [thread_id]) (line 127)
direct_send_call(thread_id, text) == [thread_ids |-> <<thread_id>>, text |-> text]

\* how often send_reply calls direct_send when the call ends with res: once,
\* the except branch (lines 129-130) only logs.  send_reply_calls_retry is
\* the faulty variant that tries again after a failure.
send_reply_calls_retry(res) == IF res = "ok" THEN 1 ELSE 2

send_reply_calls(res) == 1

\* ------------------------------------------------------------------- main_loop
\* line 182; is_group_two is the faulty variant that counts two as a group
is_group_two(participants) == participants >= 2

is_group(participants) == participants > 2

\* lines 207-213: where the loop goes after a call that raised exc, and
\* after one that did not.  handler_uncaught is the faulty variant without
\* the catch-all of line 210.
handler_uncaught(exc, normal) ==
    CASE exc \in {"ClientLoginRequired", "Exception"} -> "exit"
      [] OTHER -> normal

handler(exc, normal) ==
    CASE exc = "ClientLoginRequired" -> "exit"
      [] exc = "Exception"           -> "backoff"
      [] OTHER                       -> normal

\* lines 184-197: the decision on one record t against the seen value s.
\* act is what follows: "skip" (continue / fall through to the next record),
\* "write" (line 197 and on), "raise" (s is no dict: "in", item assignment
\* or .get raises TypeError / AttributeError).
\* Faulty variants, in this order: the first observation is treated as a
\* change; an unchanged id is treated as a change; an unknown id is recorded;
\* a change is not recorded; an unknown id removes the entry.
decide_first_replies(s, t) ==
    CASE t.last_msg_id = None -> [seen |-> s, act |-> "skip"]
      [] OTHER ->
           [seen |-> Dict(Put(s.map, t.thread_id, t.last_msg_id)),
            act  |-> IF t.thread_id \in DOMAIN s.map
                        /\ s.map[t.thread_id] = t.last_msg_id
                     THEN "skip" ELSE "write"]

decide_always(s, t) ==
    CASE t.last_msg_id = None -> [seen |-> s, act |-> "skip"]
      [] t.thread_id \notin DOMAIN s.map ->
           [seen |-> Dict(Put(s.map, t.thread_id, t.last_msg_id)), act |-> "skip"]
      [] OTHER ->
           [seen |-> Dict(Put(s.map, t.thread_id, t.last_msg_id)), act |-> "write"]

decide_none_recorded(s, t) ==
    CASE t.thread_id \notin DOMAIN s.map ->
           [seen |-> Dict(Put(s.map, t.thread_id, t.last_msg_id)), act |-> "skip"]
      [] s.map[t.thread_id] # t.last_msg_id ->
           [seen |-> Dict(Put(s.map, t.thread_id, t.last_msg_id)), act |-> "write"]
      [] OTHER -> [seen |-> s, act |-> "skip"]

decide_no_update(s, t) ==
    CASE t.last_msg_id = None -> [seen |-> s, act |-> "skip"]
      [] t.thread_id \notin DOMAIN s.map ->
           [seen |-> Dict(Put(s.map, t.thread_id, t.last_msg_id)), act |-> "skip"]
      [] s.map[t.thread_id] # t.last_msg_id -> [seen |-> s, act |-> "write"]
      [] OTHER -> [seen |-> s, act |-> "skip"]

decide_none_clears(s, t) ==
    CASE t.last_msg_id = None ->
           [seen |-> [s EXCEPT !.map = [x \in DOMAIN s.map \ {t.thread_id} |-> s.map[x]]],
            act  |-> "skip"]
      [] s.type # "dict" -> [seen |-> s, act |-> "raise"]
      [] t.thread_id \notin DOMAIN s.map ->
           [seen |-> Dict(Put(s.map, t.thread_id, t.last_msg_id)), act |-> "skip"]
      [] s.map[t.thread_id] # t.last_msg_id ->
           [seen |-> Dict(Put(s.map, t.thread_id, t.last_msg_id)), act |-> "write"]
      [] OTHER -> [seen |-> s, act |-> "skip"]

decide(s, t) ==
    CASE t.last_msg_id = None -> [seen |-> s, act |-> "skip"]
      [] s.type # "dict" -> [seen |-> s, act |-> "raise"]
      [] t.thread_id \notin DOMAIN s.map ->
           [seen |-> Dict(Put(s.map, t.thread_id, t.last_msg_id)), act |-> "skip"]
      [] s.map[t.thread_id] # t.last_msg_id ->
           [seen |-> Dict(Put(s.map, t.thread_id, t.last_msg_id)), act |-> "write"]
      [] OTHER -> [seen |-> s, act |-> "skip"]

\* ----------------------------------------------------------------------- state
VARIABLES
    disk,       \* the content of SEEN_FILE
    seen,       \* main_loop's seen (line 168)
    pc,         \* where main_loop is: "load" (line 168), "poll" (173), "for"
                \* (176), "write" (197), "send" (198), "sleep" (205),
                \* "backoff" (213), "exit" (209)
    threads,    \* the records of this cycle's listing not yet iterated
    cur,        \* tid, last, participants of the record being processed
    \* history, not read by the program:
    before,     \* seen.get(tid) when the current record was taken
    wrote,      \* how write_seen ended for the current record, or "none"
    sent,       \* the direct_send calls made for the current record
    crashes,    \* process kills so far
    wfails,     \* failed write_seen calls so far
    lastReported,     \* per thread, the last known id a record carried
    sendsSinceChange, \* per thread, send_reply calls since lastReported changed
    sendFailed, \* per thread: a send failed after its write succeeded
    authRaised, \* the provider raised ClientLoginRequired in this cycle
    startKeys,  \* the thread ids in seen when this cycle's listing was made
    \* the provider and the calls made to it, kept where the specification
    \* fixes the provider's inbox (SpecFixed, SpecLister):
    inbox,      \* the provider's inbox content
    shape,      \* TRUE: direct_threads() gives messages as dicts, FALSE: objects
    call,       \* how the two provider calls of the last listing ended
    listed,     \* what the last call of get_threads_safe came to
    served,     \* the return statement this cycle's listing left by
    prevServed  \* the previous cycle ended normally on a served listing

vars == <<disk, seen, pc, threads, cur, before, wrote, sent, crashes, wfails,
          lastReported, sendsSinceChange, sendFailed, authRaised, startKeys,
          inbox, shape, call, listed, served, prevServed>>

hist == <<lastReported, sendsSinceChange, sendFailed>>

prov == <<inbox, shape, call, listed>>

\* no call of get_threads_safe made yet
NoCall == [p |-> "none", f |-> "none"]

NoListing == [exc |-> "none", threads |-> <<>>]

\* the process has been started: main_loop is about to load the seen file
InitLoop ==
    /\ disk \in FileStates
    /\ seen = Dict(EmptyMap)
    /\ pc = "load"
    /\ threads = <<>>
    /\ cur = NoRecord
    /\ before = NoEntry
    /\ wrote = "none"
    /\ sent = <<>>
    /\ crashes = 0
    /\ wfails = 0
    /\ lastReported = [t \in TidStrs |-> None]
    /\ sendsSinceChange = [t \in TidStrs |-> 0]
    /\ sendFailed = [t \in TidStrs |-> FALSE]
    /\ authRaised = FALSE
    /\ startKeys = {}
    /\ call = NoCall
    /\ listed = NoListing
    /\ served = "none"
    /\ prevServed = FALSE

\* the provider's inbox is free to differ from one poll to the next
Init ==
    /\ InitLoop
    /\ inbox = <<>>
    /\ shape = FALSE

\* line 168
LoadSeen ==
    /\ pc = "load"
    /\ seen' = load_seen(disk)
    /\ pc' = "poll"
    /\ UNCHANGED <<disk, threads, cur, before, wrote, sent, crashes, wfails,
                   hist, authRaised, startKeys, prov, served, prevServed>>

\* line 173: threads = get_threads_safe(cl)
GetThreads ==
    /\ pc = "poll"
    /\ \E l \in Listings :
         /\ threads' = IF l.exc = "none" THEN l.threads ELSE <<>>
         /\ pc' = handler(l.exc, "for")
         /\ authRaised' = (authRaised \/ l.auth)
    /\ cur' = NoRecord
    /\ before' = NoEntry
    /\ wrote' = "none"
    /\ sent' = <<>>
    /\ startKeys' = DOMAIN seen.map
    /\ UNCHANGED <<disk, seen, crashes, wfails, hist, prov, served, prevServed>>

\* line 173, with the provider's inbox and message shape fixed
GetThreadsFixed ==
    /\ pc = "poll"
    /\ \E pRes \in CallResults, fRes \in CallResults :
         LET exc == get_threads_safe_raises(pRes, fRes) IN
         /\ threads' = IF exc = "none"
                       THEN get_threads_safe(pRes, shape, fRes, inbox)
                       ELSE <<>>
         /\ pc' = handler(exc, "for")
         /\ authRaised' = (authRaised \/ listing_auth(pRes, shape, fRes, inbox))
         /\ served' = served_by(pRes, shape, fRes, inbox)
    /\ cur' = NoRecord
    /\ before' = NoEntry
    /\ wrote' = "none"
    /\ sent' = <<>>
    /\ startKeys' = DOMAIN seen.map
    /\ UNCHANGED <<disk, seen, crashes, wfails, hist, prov, prevServed>>

\* get_threads_safe(cl) on its own
ListThreads ==
    /\ \E pRes \in CallResults, fRes \in CallResults :
         /\ call' = [p |-> pRes, f |-> fRes]
         /\ listed' = [exc     |-> get_threads_safe_raises(pRes, fRes),
                       threads |-> get_threads_safe(pRes, shape, fRes, inbox)]
    /\ UNCHANGED <<disk, seen, pc, threads, cur, before, wrote, sent, crashes,
                   wfails, hist, authRaised, startKeys, inbox, shape, served,
                   prevServed>>

\* lines 176-197: one iteration of the for loop, up to the call of write_seen
ProcessThread ==
    /\ pc = "for"
    /\ threads # <<>>
    /\ LET t == Head(threads)
           d == decide(seen, t)
           tid == t.thread_id
           changed == t.last_msg_id # None /\ lastReported[tid] # t.last_msg_id
       IN  /\ cur' = t
           /\ seen' = d.seen
           /\ before' = IF tid \in DOMAIN seen.map THEN seen.map[tid] ELSE NoEntry
           /\ threads' = IF d.act = "raise" THEN <<>> ELSE Tail(threads)
           /\ pc' = CASE d.act = "raise" -> handler("Exception", "for")
                      [] d.act = "write" -> "write"
                      [] OTHER           -> "for"
           /\ lastReported' =
                IF changed THEN [lastReported EXCEPT ![tid] = t.last_msg_id]
                ELSE lastReported
           /\ sendsSinceChange' =
                IF changed THEN [sendsSinceChange EXCEPT ![tid] = 0]
                ELSE sendsSinceChange
           /\ sendFailed' =
                IF changed THEN [sendFailed EXCEPT ![tid] = FALSE] ELSE sendFailed
    /\ wrote' = "none"
    /\ sent' = <<>>
    /\ UNCHANGED <<disk, crashes, wfails, authRaised, startKeys, prov, served,
                   prevServed>>

\* lines 197-202: write_seen(seen), then the branch on is_group
WriteSeen ==
    /\ pc = "write"
    /\ \E res \in WriteResults :
         /\ res # "ok" => wfails < MaxWriteFails
         /\ disk' = write_seen(disk, seen, res)
         /\ wrote' = res
         /\ wfails' = IF res = "ok" THEN wfails ELSE wfails + 1
    /\ pc' = IF is_group(cur.participants) THEN "send" ELSE "for"
    /\ UNCHANGED <<seen, threads, cur, before, sent, crashes, hist, authRaised,
                   startKeys, prov, served, prevServed>>

\* line 200: send_reply(cl, tid, REPLY_TEXT)
SendReply ==
    /\ pc = "send"
    /\ \E res \in CallResults :
         /\ sent' = sent \o [i \in 1..send_reply_calls(res) |->
                                 direct_send_call(cur.thread_id, REPLY_TEXT)]
         /\ sendsSinceChange' =
              [sendsSinceChange EXCEPT ![cur.thread_id] = @ + send_reply_calls(res)]
         /\ pc' = handler(send_reply_raises(res), "for")
         /\ authRaised' = (authRaised \/ res = "ClientLoginRequired")
         /\ sendFailed' =
              IF res # "ok" /\ wrote = "ok"
              THEN [sendFailed EXCEPT ![cur.thread_id] = TRUE] ELSE sendFailed
    /\ UNCHANGED <<disk, seen, threads, cur, before, wrote, crashes, wfails,
                   lastReported, startKeys, prov, served, prevServed>>

\* line 205, reached when the for loop is exhausted
EndCycle ==
    /\ pc = "for"
    /\ threads = <<>>
    /\ pc' = "sleep"
    /\ cur' = NoRecord
    /\ before' = NoEntry
    /\ wrote' = "none"
    /\ sent' = <<>>
    /\ authRaised' = FALSE
    /\ prevServed' = (served \in {"primary", "fallback"})
    /\ UNCHANGED <<disk, seen, threads, crashes, wfails, hist, startKeys, prov,
                   served>>

\* line 205: time.sleep(POLL_INTERVAL) returns, the while loop goes round
Sleep ==
    /\ pc = "sleep"
    /\ pc' = "poll"
    /\ UNCHANGED <<disk, seen, threads, cur, before, wrote, sent, crashes,
                   wfails, hist, authRaised, startKeys, prov, served, prevServed>>

\* lines 210-213: the backoff sleep returns, the while loop goes round
Backoff ==
    /\ pc = "backoff"
    /\ pc' = "poll"
    /\ cur' = NoRecord
    /\ before' = NoEntry
    /\ authRaised' = FALSE
    /\ prevServed' = FALSE
    /\ UNCHANGED <<disk, seen, threads, wrote, sent, crashes, wfails, hist,
                   startKeys, prov, served>>

\* the process is killed and started again: memory is lost, the file stays
Crash ==
    /\ pc # "load"
    /\ crashes < MaxCrashes
    /\ crashes' = crashes + 1
    /\ pc' = "load"
    /\ seen' = Dict(EmptyMap)
    /\ threads' = <<>>
    /\ cur' = NoRecord
    /\ before' = NoEntry
    /\ wrote' = "none"
    /\ sent' = <<>>
    /\ authRaised' = FALSE
    /\ startKeys' = {}
    /\ served' = "none"
    /\ prevServed' = FALSE
    /\ UNCHANGED <<disk, wfails, hist, prov>>

Next ==
    \/ LoadSeen
    \/ GetThreads
    \/ ProcessThread
    \/ WriteSeen
    \/ SendReply
    \/ EndCycle
    \/ Sleep
    \/ Backoff
    \/ Crash

Spec == Init /\ [][Next]_vars

\* the steps of the running process: a started process executes its next
\* statement, and provider calls, file operations and sleeps return
Run ==
    \/ LoadSeen
    \/ GetThreads
    \/ ProcessThread
    \/ WriteSeen
    \/ SendReply
    \/ EndCycle
    \/ Sleep
    \/ Backoff

SpecLive == Init /\ [][Next]_vars /\ WF_vars(Run)

\* the loop against a provider whose inbox content and message shape stay
\* the same from poll to poll; the process is not killed
InitFixed ==
    /\ InitLoop
    /\ inbox \in Inboxes
    /\ shape \in BOOLEAN

NextFixed ==
    \/ LoadSeen
    \/ GetThreadsFixed
    \/ ProcessThread
    \/ WriteSeen
    \/ SendReply
    \/ EndCycle
    \/ Sleep
    \/ Backoff

SpecFixed == InitFixed /\ [][NextFixed]_vars

\* get_threads_safe applied to every inbox content, message shape and pair
\* of call outcomes
InitLister ==
    /\ InitLoop
    /\ disk = FileMissing
    /\ inbox \in Inboxes
    /\ shape \in BOOLEAN

NextLister == ListThreads

SpecLister == InitLister /\ [][NextLister]_vars

\* ---------------------------------------------------------------- properties
\* the record whose processing has been completed, or is under way
Taken == cur # NoRecord

C2_AtMostOneReplyPerChange ==
    wfails = 0 => \A t \in TidStrs : sendsSinceChange[t] <= 1

\* after a crash and a restart, the thread that was replied to is reported
\* with the same id and processed without a reply
C2_Witness ==
    /\ crashes >= 1
    /\ wfails = 0
    /\ pc = "for"
    /\ Taken
    /\ before = cur.last_msg_id
    /\ cur.participants > 2
    /\ sent = <<>>
    /\ sendsSinceChange[cur.thread_id] = 1

\* C3 (as claimed): when the provider has raised ClientLoginRequired in a
\* cycle, from the listing calls or from direct_send, the loop has exited.
C3_AuthErrorExits == authRaised => pc = "exit"

\* C4: a record with a known id for a thread that is not in the seen map
\* puts thread_id -> last_msg_id into the map and no write_seen and no
\* send_reply follows, whatever the participant count.
C4_FirstSeenNoReply ==
    (Taken /\ cur.last_msg_id # None /\ before = NoEntry /\ seen.type = "dict") =>
        /\ pc = "for"
        /\ sent = <<>>
        /\ cur.thread_id \in DOMAIN seen.map
        /\ seen.map[cur.thread_id] = cur.last_msg_id

C4_Witness ==
    /\ Taken
    /\ cur.last_msg_id # None
    /\ before = NoEntry
    /\ seen.type = "dict"
    /\ cur.participants > 2
    /\ pc = "for"
    /\ seen.map[cur.thread_id] = cur.last_msg_id

\* C5: once a record with a known id m, for a thread that was in the seen
\* map with another value, has been processed: seen maps the thread to m,
\* write_seen was called (and the file holds seen if it succeeded), and
\* exactly one direct_send(REPLY_TEXT, [thread]) was made if participants > 2,
\* none otherwise.
C5_ChangeRepliesToGroupsOnly ==
    (pc = "for" /\ Taken /\ cur.last_msg_id # None
        /\ before \notin {NoEntry, cur.last_msg_id}) =>
        /\ seen.map[cur.thread_id] = cur.last_msg_id
        /\ wrote # "none"
        /\ wrote = "ok" => disk = seen
        /\ sent = IF cur.participants > 2
                  THEN <<[thread_ids |-> <<cur.thread_id>>, text |-> REPLY_TEXT]>>
                  ELSE <<>>

C5_Witness ==
    /\ pc = "for"
    /\ Taken
    /\ before \in MidStrs \ {cur.last_msg_id}
    /\ cur.last_msg_id # None
    /\ cur.participants > 2
    /\ Len(sent) = 1
    /\ wrote = "ok"

\* C6: processing a record whose id equals the value stored for its thread
\* leaves seen and SEEN_FILE as they are and leads to no write_seen and no
\* send_reply.
C6_SameIdIsNoOp ==
    [][(/\ pc = "for"
        /\ threads # <<>>
        /\ seen.type = "dict"
        /\ Head(threads).thread_id \in DOMAIN seen.map
        /\ seen.map[Head(threads).thread_id] = Head(threads).last_msg_id
        /\ crashes' = crashes)
       => (seen' = seen /\ disk' = disk /\ pc' = "for" /\ sent' = <<>>)]_vars

C6_Witness ==
    /\ pc = "for"
    /\ Taken
    /\ before \in MidStrs
    /\ before = cur.last_msg_id
    /\ cur.participants > 2
    /\ sent = <<>>

\* C7: processing a record whose last_msg_id is None leaves seen and
\* SEEN_FILE as they are and leads to no write_seen and no send_reply,
\* whether or not the thread is in the seen map.
C7_UnknownIdIsSkipped ==
    [][(/\ pc = "for"
        /\ threads # <<>>
        /\ Head(threads).last_msg_id = None
        /\ crashes' = crashes)
       => (seen' = seen /\ disk' = disk /\ pc' = "for" /\ sent' = <<>>)]_vars

C7_Witness ==
    /\ pc = "for"
    /\ Taken
    /\ cur.last_msg_id = None
    /\ before \in MidStrs
    /\ seen.map[cur.thread_id] = before
    /\ sent = <<>>

\* C8: the step in which a send fails after its seen update was persisted
\* is one direct_send call, raises nothing into the loop and leaves seen as
\* it is; from then on, until a record carries another id for the thread,
\* no send_reply is called for it and its seen entry is neither removed nor
\* changed while the process runs.
C8_FailedSendNotRepeated ==
    [][\A t \in TidStrs :
        /\ (~sendFailed[t] /\ sendFailed'[t]) =>
              /\ sendsSinceChange'[t] = sendsSinceChange[t] + 1
              /\ Len(sent') = Len(sent) + 1
              /\ pc' = "for"
              /\ seen' = seen
              /\ seen.map[t] = lastReported[t]
        /\ (sendFailed[t] /\ sendFailed'[t]) =>
              /\ sendsSinceChange'[t] = sendsSinceChange[t]
              /\ (pc # "load" /\ pc' # "load" /\ t \in DOMAIN seen.map) =>
                    (t \in DOMAIN seen'.map /\ seen'.map[t] = seen.map[t])
      ]_vars

\* a later record with the same id for the thread of a failed send has been
\* processed without a reply
C8_Witness ==
    /\ pc = "for"
    /\ Taken
    /\ sendFailed[cur.thread_id]
    /\ before = cur.last_msg_id
    /\ cur.participants > 2
    /\ sent = <<>>

\* C9 (as claimed): load_seen on a file that is missing, unparseable or
\* holds no mapping yields the empty mapping.
C9_LoadYieldsEmptyMapping ==
    [][(pc = "load" /\ pc' = "poll" /\ disk.type # "dict")
       => seen' = Dict(EmptyMap)]_vars

\* C10 (as claimed): when no write_seen has failed, SEEN_FILE holds the
\* in-memory seen map at the end of every poll cycle.
C10_FileEqualsMemoryAtCycleEnd ==
    (pc = "sleep" /\ wfails = 0) => load_seen(disk) = seen

C14_LoopNeverStops ==
    /\ [](pc \in {"load", "poll", "for", "write", "send", "sleep", "backoff"})
    /\ [][pc' = "poll" => pc \in {"poll", "sleep", "backoff", "load"}]_vars
    /\ []<>(pc = "poll")

\* after a failed write_seen and a failed send the loop is about to poll
\* again
C14_Witness ==
    /\ pc = "poll"
    /\ wfails >= 1
    /\ \E t \in TidStrs : sendFailed[t]

\* get_threads_safe has been called on the inbox
Called == call # NoCall

\* the retrieval paths of the last call, as they went
PrimaryRaised == retrieve(call.p, inbox, TRUE, shape).raised

FallbackRaised == retrieve(call.f, inbox, FALSE, FALSE).raised

\* C12 (as claimed): when the primary path and the fallback path both raise,
\* in the call or partway through the iteration, get_threads_safe returns
\* the empty list and no exception leaves it.
C12_BothPathsFailGivesEmpty ==
    (Called /\ PrimaryRaised /\ FallbackRaised) =>
        (listed.exc = "none" /\ listed.threads = <<>>)

\* every thread of the inbox has an identifier and a latest message with
\* one identifier
AllIdentified(raw) ==
    \A i \in 1..Len(raw) :
        /\ ~raw[i].bad
        /\ raw[i].id # 0
        /\ raw[i].msg_id # 0
        /\ raw[i].item_id \in {0, raw[i].msg_id}

\* the record the claim expects for the i-th thread of such an inbox
ExpectedRecord(raw, i) ==
    [thread_id    |-> Str(raw[i].id),
     last_msg_id  |-> Str(raw[i].msg_id),
     participants |-> raw[i].users]

\* C13 (as claimed): for an inbox whose threads all have an identifier and a
\* latest message with id m, a listing served by the primary path (messages
\* as objects or as dicts) and one served by the fallback path are the same
\* records: thread_id = str(id), last_msg_id = str(m), participants = the
\* number of users; and no record stands for a thread without identifier.
C13_ShapesNormalizeAlike ==
    /\ (Called /\ AllIdentified(inbox) /\ (call.p = "ok" \/ call.f = "ok")) =>
          /\ Len(listed.threads) = Len(inbox)
          /\ \A i \in 1..Len(inbox) : listed.threads[i] = ExpectedRecord(inbox, i)
    /\ \A j \in 1..Len(listed.threads) : listed.threads[j].thread_id \in TidStrs

\* C15 (as claimed): when a provider call succeeded, every well-formed
\* thread of the response, before or after a malformed entry, has a record
\* in the result, and nothing is raised.
C15_MalformedEntrySkipped ==
    (Called /\ (call.p = "ok" \/ call.f = "ok")) =>
        /\ listed.exc = "none"
        /\ \A i \in 1..Len(inbox) :
              (~inbox[i].bad /\ inbox[i].id # 0) =>
                  \E j \in 1..Len(listed.threads) :
                      listed.threads[j].thread_id = Str(inbox[i].id)

\* C16 (as claimed): the list get_threads_safe returns holds no two records
\* with the same thread_id.
C16_NoThreadListedTwice ==
    \A i, j \in 1..Len(listed.threads) :
        i # j => listed.threads[i].thread_id # listed.threads[j].thread_id

\* the integer a message id string is the str() of
IdNum(m) == CHOOSE i \in 1..MaxMsgId : Str(i) = m

\* C17 (as claimed): send_reply is reached only for an id newer (greater)
\* than the stored one.
C17_ReplyOnlyForNewerId ==
    pc = "send" => IdNum(cur.last_msg_id) > IdNum(before)

\* C18 (as claimed): with the inbox content unchanged, a poll that follows a
\* served poll, and is itself served by either path, changes no seen entry
\* and leads to no write_seen and no send_reply.
C18_SameInboxSecondPollIsNoOp ==
    [][(/\ prevServed
        /\ served \in {"primary", "fallback"}
        /\ pc = "for"
        /\ threads # <<>>)
       => (seen' = seen /\ pc' = "for")]_vars

\* C19 (as claimed): processing a record leaves the seen entries of all other
\* threads as they are, and send_reply is called only for the record's
\* thread, which was in seen when the cycle's listing was made and whose
\* record has participants > 2.
C19_OnlyOwnEntryAndKnownGroup ==
    [][/\ (pc = "for" /\ threads # <<>> /\ pc' # "load") =>
            /\ DOMAIN seen'.map \subseteq DOMAIN seen.map \cup {Head(threads).thread_id}
            /\ \A t \in DOMAIN seen.map \ {Head(threads).thread_id} :
                   t \in DOMAIN seen'.map /\ seen'.map[t] = seen.map[t]
       /\ (pc = "send" /\ pc' # "load") =>
            /\ sent' = <<[thread_ids |-> <<cur.thread_id>>, text |-> REPLY_TEXT]>>
            /\ cur.thread_id \in startKeys
            /\ cur.participants > 2
      ]_vars

====
